---- MODULE Spec2Model ----
(***************************************************************************)
(* HashMap<KeyType, ValueType, Hash> of src/hash_map.h: a chaining hash    *)
(* table (hash_map_, a vector of chains of list iterators) paired with the *)
(* record list element_list_ that owns the (key, value) pairs.             *)
(*                                                                         *)
(* A map object is a record with the fields of the class.  A list node is  *)
(* [addr, first, second]: addr is the node's identity, which is what a     *)
(* std::list iterator denotes; first and second are the stored pair.       *)
(* The member functions are operators from a map value (and arguments) to  *)
(* the map value after the call; the actions apply them to the objects in  *)
(* hm.                                                                     *)
(***************************************************************************)
EXTENDS Integers, Sequences, FiniteSets, TLC

\* ---------------------------------------------------------------- bounds
MaxKey == 3
MaxValue == 1
MaxSeed == 2
MaxLen == 3
MaxListLen == 1

Keys == 1..MaxKey
Values == 0..MaxValue
\* A Hash instance is identified by a seed: see Hasher.
Seeds == 0..MaxSeed
MapIds == {1, 2}

VARIABLES
  hm,    \* hm[m]: the map object m (its five data members)
  prev,  \* prev[m]: the map object m as it was before the last call
  last,  \* the last call: operation, object, arguments and returned value
  ref    \* ref[m]: the reference key-to-value map driven by the same calls

vars == <<hm, prev, last, ref>>

\* ------------------------------------------------------- program constants
kLoadFactor_ == 2
initialSize_ == 2
\* ValueType {} for an integral ValueType
DefaultValue == 0
\* The position element_list_.end(): no node has this address.
EndSentinel == 0

\* ---------------------------------------------------------------- helpers
RECURSIVE BitAnd(_, _)
\* x & y on unsigned integers
BitAnd(x, y) ==
  IF x = 0 \/ y = 0 THEN 0
  ELSE (x % 2) * (y % 2) + 2 * BitAnd(x \div 2, y \div 2)

\* hasher_(key): the instance with seed s maps key to key * s.  Seed 0 sends
\* every key to the same bucket, seed 1 is the identity (std::hash<int>).
Hasher(seed, key) == key * seed

Range(s) == {s[i] : i \in 1..Len(s)}

\* The sequence s without its i-th element.
RemoveAt(s, i) == [j \in 1..(Len(s) - 1) |-> IF j < i THEN s[j] ELSE s[j + 1]]

\* The node of the record list at address a (a is the address of a live node).
NodeAt(self, a) ==
  CHOOSE n \in Range(self.element_list_) : n.addr = a

\* The allocator of the list nodes: the lowest address no live node has.
\* The address of an erased node is handed out again.
NewNode(self) ==
  LET used == {n.addr : n \in Range(self.element_list_)}
  IN CHOOSE a \in 1..(Cardinality(used) + 1) :
       /\ a \notin used
       /\ \A b \in 1..(a - 1) : b \in used

\* std::vector::resize(n) on the vector of chains: the first n chains are
\* kept, the missing ones are empty.
Resize(vec, n) ==
  [i \in 0..(n - 1) |-> IF i \in DOMAIN vec THEN vec[i] ELSE <<>>]

\* ------------------------------------------------------- member functions
begin(self) ==
  IF self.element_list_ = <<>> THEN EndSentinel ELSE self.element_list_[1].addr

end(self) == EndSentinel

size(self) == self.size_

hash_function(self) == self.hasher_

IsEqual(key, other) == key = other

IdxFromKey(self, key) ==
  BitAnd(Hasher(self.hasher_, key), self.table_size_ - 1)

RECURSIVE ScanChain(_, _, _, _)
\* The loop of RecordInMap over chain from position it on: the first position
\* whose node has the key, or Len(chain) + 1, the chain's end().
ScanChain(self, chain, it, key) ==
  IF it > Len(chain) THEN it
  ELSE IF IsEqual(NodeAt(self, chain[it]).first, key) THEN it
  ELSE ScanChain(self, chain, it + 1, key)

RecordInMap(self, key) ==
  LET idx == IdxFromKey(self, key)
  IN ScanChain(self, self.hash_map_[idx], 1, key)

find(self, key) ==
  LET idx == IdxFromKey(self, key)
      bucket_list_iterator == RecordInMap(self, key)
  IN IF bucket_list_iterator # Len(self.hash_map_[idx]) + 1
     THEN self.hash_map_[idx][bucket_list_iterator]
     ELSE end(self)

RECURSIVE Rebuild(_, _, _)
\* The loop of DoubleSize: the nodes of the record list from position i on,
\* each appended to the chain of its key and counted.
Rebuild(self, list, i) ==
  IF i > Len(list) THEN self
  ELSE LET idx == IdxFromKey(self, list[i].first)
       IN Rebuild([self EXCEPT !.hash_map_[idx] = Append(@, list[i].addr),
                               !.size_ = @ + 1],
                  list, i + 1)

\* DoubleSize with table_size_ <<= 2.
DoubleSize_ShiftTwo(self) ==
  LET doubled == self.table_size_ * 4
      cleared == [self EXCEPT !.table_size_ = doubled,
                              !.size_ = 0,
                              !.hash_map_ = Resize(<<>>, doubled)]
  IN Rebuild(cleared, self.element_list_, 1)

\* DoubleSize without hash_map_.clear(): the old chains stay.
DoubleSize_KeepChains(self) ==
  LET doubled == self.table_size_ * 2
      cleared == [self EXCEPT !.table_size_ = doubled,
                              !.size_ = 0,
                              !.hash_map_ = Resize(@, doubled)]
  IN Rebuild(cleared, self.element_list_, 1)

\* DoubleSize without size_ = 0.
DoubleSize_NoReset(self) ==
  LET doubled == self.table_size_ * 2
      cleared == [self EXCEPT !.table_size_ = doubled,
                              !.hash_map_ = Resize(<<>>, doubled)]
  IN Rebuild(cleared, self.element_list_, 1)

DoubleSize(self) ==
  LET doubled == self.table_size_ * 2
      cleared == [self EXCEPT !.table_size_ = doubled,
                              !.size_ = 0,
                              !.hash_map_ = Resize(<<>>, doubled)]
  IN Rebuild(cleared, self.element_list_, 1)

\* insert whose growth check is size_ * kLoadFactor_ > table_size_.
insert_GrowLate(self, elem) ==
  LET grown == IF self.size_ * kLoadFactor_ > self.table_size_
               THEN DoubleSize(self)
               ELSE self
      idx == IdxFromKey(grown, elem.first)
      node == [addr |-> NewNode(grown), first |-> elem.first,
               second |-> elem.second]
  IN IF find(grown, elem.first) = end(grown)
     THEN [grown EXCEPT !.element_list_ = <<node>> \o @,
                        !.hash_map_[idx] = Append(@, node.addr),
                        !.size_ = @ + 1]
     ELSE grown

\* insert without a growth check.
insert_NoGrow(self, elem) ==
  LET idx == IdxFromKey(self, elem.first)
      node == [addr |-> NewNode(self), first |-> elem.first,
               second |-> elem.second]
  IN IF find(self, elem.first) = end(self)
     THEN [self EXCEPT !.element_list_ = <<node>> \o @,
                       !.hash_map_[idx] = Append(@, node.addr),
                       !.size_ = @ + 1]
     ELSE self

\* insert whose duplicate check scans the chain at the index computed before
\* the growth check.
insert_StaleDuplicateCheck(self, elem) ==
  LET grown == IF self.size_ * kLoadFactor_ >= self.table_size_
               THEN DoubleSize(self)
               ELSE self
      stale == IdxFromKey(self, elem.first)
      idx == IdxFromKey(grown, elem.first)
      node == [addr |-> NewNode(grown), first |-> elem.first,
               second |-> elem.second]
  IN IF ScanChain(grown, grown.hash_map_[stale], 1, elem.first)
          = Len(grown.hash_map_[stale]) + 1
     THEN [grown EXCEPT !.element_list_ = <<node>> \o @,
                        !.hash_map_[idx] = Append(@, node.addr),
                        !.size_ = @ + 1]
     ELSE grown

\* insert with the duplicate check before the growth check.
insert_DuplicateCheckFirst(self, elem) ==
  IF find(self, elem.first) # end(self) THEN self
  ELSE LET grown == IF self.size_ * kLoadFactor_ >= self.table_size_
                    THEN DoubleSize(self)
                    ELSE self
           idx == IdxFromKey(grown, elem.first)
           node == [addr |-> NewNode(grown), first |-> elem.first,
                    second |-> elem.second]
       IN [grown EXCEPT !.element_list_ = <<node>> \o @,
                        !.hash_map_[idx] = Append(@, node.addr),
                        !.size_ = @ + 1]

\* insert that assigns the value of a present key.
insert_Overwrite(self, elem) ==
  LET grown == IF self.size_ * kLoadFactor_ >= self.table_size_
               THEN DoubleSize(self)
               ELSE self
      idx == IdxFromKey(grown, elem.first)
      node == [addr |-> NewNode(grown), first |-> elem.first,
               second |-> elem.second]
  IN IF find(grown, elem.first) = end(grown)
     THEN [grown EXCEPT !.element_list_ = <<node>> \o @,
                        !.hash_map_[idx] = Append(@, node.addr),
                        !.size_ = @ + 1]
     ELSE [grown EXCEPT !.element_list_ =
             [i \in 1..Len(@) |->
                IF @[i].first = elem.first
                THEN [@[i] EXCEPT !.second = elem.second] ELSE @[i]]]

\* insert with push_back in place of push_front.
insert_PushBack(self, elem) ==
  LET grown == IF self.size_ * kLoadFactor_ >= self.table_size_
               THEN DoubleSize(self)
               ELSE self
      idx == IdxFromKey(grown, elem.first)
      node == [addr |-> NewNode(grown), first |-> elem.first,
               second |-> elem.second]
  IN IF find(grown, elem.first) = end(grown)
     THEN [grown EXCEPT !.element_list_ = Append(@, node),
                        !.hash_map_[idx] = Append(@, node.addr),
                        !.size_ = @ + 1]
     ELSE grown

insert(self, elem) ==
  LET grown == IF self.size_ * kLoadFactor_ >= self.table_size_
               THEN DoubleSize(self)
               ELSE self
      idx == IdxFromKey(grown, elem.first)
      node == [addr |-> NewNode(grown), first |-> elem.first,
               second |-> elem.second]
  IN IF find(grown, elem.first) = end(grown)
     THEN [grown EXCEPT !.element_list_ = <<node>> \o @,
                        !.hash_map_[idx] = Append(@, node.addr),
                        !.size_ = @ + 1]
     ELSE grown

\* erase without --size_.
erase_NoDecrement(self, key) ==
  LET bucket_list_iterator == RecordInMap(self, key)
      idx == IdxFromKey(self, key)
  IN IF bucket_list_iterator # Len(self.hash_map_[idx]) + 1
     THEN LET a == self.hash_map_[idx][bucket_list_iterator]
          IN [self EXCEPT
                !.element_list_ = SelectSeq(@, LAMBDA n : n.addr # a),
                !.hash_map_[idx] = RemoveAt(@, bucket_list_iterator)]
     ELSE self

\* erase that removes the node of the chain's first handle, not of the
\* handle found.
erase_FirstOfChain(self, key) ==
  LET bucket_list_iterator == RecordInMap(self, key)
      idx == IdxFromKey(self, key)
  IN IF bucket_list_iterator # Len(self.hash_map_[idx]) + 1
     THEN LET a == self.hash_map_[idx][1]
          IN [self EXCEPT
                !.element_list_ = SelectSeq(@, LAMBDA n : n.addr # a),
                !.hash_map_[idx] = RemoveAt(@, 1),
                !.size_ = @ - 1]
     ELSE self

\* erase that leaves the handle in its chain.
erase_KeepHandle(self, key) ==
  LET bucket_list_iterator == RecordInMap(self, key)
      idx == IdxFromKey(self, key)
  IN IF bucket_list_iterator # Len(self.hash_map_[idx]) + 1
     THEN LET a == self.hash_map_[idx][bucket_list_iterator]
          IN [self EXCEPT
                !.element_list_ = SelectSeq(@, LAMBDA n : n.addr # a),
                !.size_ = @ - 1]
     ELSE self

erase(self, key) ==
  LET bucket_list_iterator == RecordInMap(self, key)
      idx == IdxFromKey(self, key)
  IN IF bucket_list_iterator # Len(self.hash_map_[idx]) + 1
     THEN LET a == self.hash_map_[idx][bucket_list_iterator]
          IN [self EXCEPT
                !.element_list_ = SelectSeq(@, LAMBDA n : n.addr # a),
                !.hash_map_[idx] = RemoveAt(@, bucket_list_iterator),
                !.size_ = @ - 1]
     ELSE self

\* clear without table_size_ = initialSize_.
clear_KeepTableSize(self) ==
  [self EXCEPT !.size_ = 0,
               !.hash_map_ = Resize(<<>>, self.table_size_),
               !.element_list_ = <<>>]

\* clear without the final hash_map_.resize(table_size_).
clear_NoResize(self) ==
  [self EXCEPT !.size_ = 0,
               !.table_size_ = initialSize_,
               !.hash_map_ = <<>>,
               !.element_list_ = <<>>]

clear(self) ==
  [self EXCEPT !.size_ = 0,
               !.table_size_ = initialSize_,
               !.hash_map_ = Resize(<<>>, initialSize_),
               !.element_list_ = <<>>]

\* at that returns a default value for an absent key.
at_DefaultOnAbsent(self, key) ==
  LET it == find(self, key)
  IN IF it # end(self)
     THEN [threw |-> "nothing", value |-> NodeAt(self, it).second]
     ELSE [threw |-> "nothing", value |-> DefaultValue]

\* at(key): the value of the reference returned, or the std::out_of_range
\* thrown (no value is returned then).
at(self, key) ==
  LET it == find(self, key)
  IN IF it # end(self)
     THEN [threw |-> "nothing", value |-> NodeAt(self, it).second]
     ELSE [threw |-> "out_of_range"]

\* operator[] that calls insert before it looks the key up.
OperatorIndex_InsertFirst(self, key) ==
  LET new_element == [first |-> key, second |-> DefaultValue]
      inserted == insert(self, new_element)
  IN [map |-> inserted,
      ret |-> NodeAt(inserted, find(inserted, key)).second]

\* operator[](key): the map after the call and the value of the reference
\* returned.
OperatorIndex(self, key) ==
  LET it == find(self, key)
      new_element == [first |-> key, second |-> DefaultValue]
      inserted == insert(self, new_element)
  IN IF it # end(self)
     THEN [map |-> self, ret |-> NodeAt(self, it).second]
     ELSE [map |-> inserted,
           ret |-> NodeAt(inserted, find(inserted, key)).second]

\* HashMap(const Hash &hash)
HashMapDefault(hash) ==
  [size_ |-> 0, table_size_ |-> initialSize_,
   hash_map_ |-> Resize(<<>>, initialSize_),
   element_list_ |-> <<>>, hasher_ |-> hash]

RECURSIVE InsertAll(_, _, _)
\* for (auto element : elements) insert(element), from position i on
InsertAll(self, elements, i) ==
  IF i > Len(elements) THEN self
  ELSE InsertAll(insert(self, elements[i]), elements, i + 1)

\* A range constructor that stops at the first key it has seen before.
HashMapRange_StopAtDuplicate(initial, hash) ==
  LET n == IF \E i \in 1..Len(initial) : \E j \in 1..(i - 1) :
                 initial[j].first = initial[i].first
           THEN (CHOOSE i \in 1..Len(initial) :
                   /\ \E j \in 1..(i - 1) : initial[j].first = initial[i].first
                   /\ \A i2 \in 1..(i - 1) : \A j \in 1..(i2 - 1) :
                        initial[j].first # initial[i2].first) - 1
           ELSE Len(initial)
  IN InsertAll(HashMapDefault(hash), SubSeq(initial, 1, n), 1)

\* HashMap(begin, end, hash)
HashMapRange(initial, hash) == InsertAll(HashMapDefault(hash), initial, 1)

\* HashMap(initializer_list, hash)
HashMapList(initial, hash) == InsertAll(HashMapDefault(hash), initial, 1)

\* HashMap(const HashMap &other)
HashMapCopy(other) ==
  InsertAll(HashMapDefault(hash_function(other)), other.element_list_, 1)

\* operator= without the call of clear().
OperatorAssign_NoClear(self, other) ==
  LET reset == [self EXCEPT !.size_ = 0,
                            !.hasher_ = hash_function(other),
                            !.table_size_ = initialSize_,
                            !.hash_map_ = Resize(@, initialSize_)]
  IN InsertAll(reset, other.element_list_, 1)

\* operator=(other) on distinct objects (this != &other)
OperatorAssign(self, other) ==
  LET reset == [self EXCEPT !.size_ = 0,
                            !.hasher_ = hash_function(other),
                            !.table_size_ = initialSize_,
                            !.hash_map_ = Resize(@, initialSize_)]
  IN InsertAll(clear(reset), other.element_list_, 1)

\* ------------------------------------------------------------ the system
\* An object that is declared and not constructed yet: no constructed map has
\* a table of 0 chains.
Unconstructed ==
  [size_ |-> 0, table_size_ |-> 0, hash_map_ |-> <<>>,
   element_list_ |-> <<>>, hasher_ |-> 0]

Constructed(m) == hm[m] # Unconstructed

\* The arguments of the range constructor, the sequences of at most MaxLen
\* pairs, and of the initializer-list constructor, of at most MaxListLen.
Elements == [first : Keys, second : Values]

Ranges == UNION {[1..n -> Elements] : n \in 0..MaxLen}

Lists == UNION {[1..n -> Elements] : n \in 0..MaxListLen}

\* The mark of a key the reference map does not hold: no value.
Absent == MaxValue + 1

EmptyRef == [k \in Keys |-> Absent]

\* The reference map of a sequence of pairs inserted in order: each key with
\* the value of its first occurrence.
RefOfRange(initial) ==
  [k \in Keys |->
     IF \E i \in 1..Len(initial) : initial[i].first = k
     THEN LET i == CHOOSE i \in 1..Len(initial) :
                     /\ initial[i].first = k
                     /\ \A j \in 1..(i - 1) : initial[j].first # k
          IN initial[i].second
     ELSE Absent]

NoCall ==
  [op |-> "none", self |-> 1, other |-> 1, key |-> 0, val |-> 0,
   range |-> <<>>, ret |-> 0]

\* The call op on object m leaves it as after and returns ret.
Call(m, after, op, args, ret, newref) ==
  /\ hm' = [hm EXCEPT ![m] = after]
  /\ prev' = hm
  /\ last' = [NoCall EXCEPT !.op = op, !.self = m, !.other = args.other,
                            !.key = args.key, !.val = args.val,
                            !.range = args.range, !.ret = ret]
  /\ ref' = [ref EXCEPT ![m] = newref]

NoArgs == [other |-> 1, key |-> 0, val |-> 0, range |-> <<>>]

KeyArg(k) == [NoArgs EXCEPT !.key = k]

\* HashMap m(hash);
DefaultCtor(m, seed) ==
  /\ ~Constructed(m)
  /\ Call(m, HashMapDefault(seed), "HashMap(hash)", NoArgs, 0, EmptyRef)

\* HashMap m(begin, end, hash);
RangeCtor(m, initial, seed) ==
  /\ ~Constructed(m)
  /\ Call(m, HashMapRange(initial, seed), "HashMap(range)",
          [NoArgs EXCEPT !.range = initial], 0, RefOfRange(initial))

\* HashMap m({...}, hash);
ListCtor(m, initial, seed) ==
  /\ ~Constructed(m)
  /\ Call(m, HashMapList(initial, seed), "HashMap(list)",
          [NoArgs EXCEPT !.range = initial], 0, RefOfRange(initial))

\* HashMap m(other);
CopyCtor(m, o) ==
  /\ ~Constructed(m)
  /\ Constructed(o)
  /\ Call(m, HashMapCopy(hm[o]), "HashMap(other)",
          [NoArgs EXCEPT !.other = o], 0, ref[o])

\* m = other;
Assign(m, o) ==
  /\ Constructed(m)
  /\ Constructed(o)
  /\ Call(m, IF m # o THEN OperatorAssign(hm[m], hm[o]) ELSE hm[m],
          "operator=", [NoArgs EXCEPT !.other = o], 0, ref[o])

Insert(m, k, v) ==
  /\ Constructed(m)
  /\ Call(m, insert(hm[m], [first |-> k, second |-> v]), "insert",
          [NoArgs EXCEPT !.key = k, !.val = v], 0,
          IF ref[m][k] = Absent THEN [ref[m] EXCEPT ![k] = v] ELSE ref[m])

Index(m, k) ==
  /\ Constructed(m)
  /\ LET r == OperatorIndex(hm[m], k)
     IN Call(m, r.map, "operator[]", KeyArg(k), r.ret,
             IF ref[m][k] = Absent THEN [ref[m] EXCEPT ![k] = DefaultValue]
             ELSE ref[m])

Erase(m, k) ==
  /\ Constructed(m)
  /\ Call(m, erase(hm[m], k), "erase", KeyArg(k), 0,
          [ref[m] EXCEPT ![k] = Absent])

Find(m, k) ==
  /\ Constructed(m)
  /\ Call(m, hm[m], "find", KeyArg(k), find(hm[m], k), ref[m])

At(m, k) ==
  /\ Constructed(m)
  /\ Call(m, hm[m], "at", KeyArg(k), at(hm[m], k), ref[m])

Clear(m) ==
  /\ Constructed(m)
  /\ Call(m, clear(hm[m]), "clear", NoArgs, 0, EmptyRef)

\* One map, constructed empty with any hash instance, and every member
\* function called on it.
Init ==
  /\ \E seed \in Seeds :
       hm = [m \in MapIds |-> IF m = 1 THEN HashMapDefault(seed) ELSE Unconstructed]
  /\ prev = hm
  /\ last = NoCall
  /\ ref = [m \in MapIds |-> EmptyRef]

Next ==
  \/ \E k \in Keys, v \in Values : Insert(1, k, v)
  \/ \E k \in Keys : Index(1, k)
  \/ \E k \in Keys : Erase(1, k)
  \/ \E k \in Keys : Find(1, k)
  \/ \E k \in Keys : At(1, k)
  \/ Clear(1)

Spec == Init /\ [][Next]_vars

\* Two maps: map 1 is constructed from a range of pairs and has keys erased,
\* map 2 is constructed empty, from a literal list or as a copy of map 1, and
\* each is assigned to the other.
InitCopy ==
  /\ hm = [m \in MapIds |-> Unconstructed]
  /\ prev = hm
  /\ last = NoCall
  /\ ref = [m \in MapIds |-> EmptyRef]

NextCopy ==
  \/ \E initial \in Ranges, seed \in Seeds : RangeCtor(1, initial, seed)
  \/ \E seed \in Seeds : DefaultCtor(2, seed)
  \/ \E initial \in Lists, seed \in Seeds : ListCtor(2, initial, seed)
  \/ CopyCtor(2, 1)
  \/ \E k \in Keys : Erase(1, k)
  \/ \E m \in MapIds, o \in MapIds : Assign(m, o)

SpecCopy == InitCopy /\ [][NextCopy]_vars

\* One map with every member function called on it while it is the only
\* object; then map 2 is constructed, empty with any hash instance or as a
\* copy of map 1, each map is assigned to the other and map 2 has keys
\* erased.
NextAll ==
  \/ ~Constructed(2) /\ \E k \in Keys, v \in Values : Insert(1, k, v)
  \/ ~Constructed(2) /\ \E k \in Keys : Index(1, k)
  \/ ~Constructed(2) /\ \E k \in Keys : Erase(1, k)
  \/ ~Constructed(2) /\ \E k \in Keys : Find(1, k)
  \/ ~Constructed(2) /\ \E k \in Keys : At(1, k)
  \/ ~Constructed(2) /\ Clear(1)
  \/ \E seed \in Seeds : DefaultCtor(2, seed)
  \/ CopyCtor(2, 1)
  \/ \E m \in MapIds, o \in MapIds : Assign(m, o)
  \/ \E k \in Keys : Erase(2, k)

SpecAll == Init /\ [][NextAll]_vars

\* ---------------------------------------------------------- the properties
\* What the caller can observe of the record list, without the code's lookup.
Nodes(self) == Range(self.element_list_)

Present(self, key) == \E n \in Nodes(self) : n.first = key

\* begin()..end() as the sequence of (key, value) pairs
Pairs(self) ==
  [i \in 1..Len(self.element_list_) |->
     <<self.element_list_[i].first, self.element_list_[i].second>>]

Grew == hm[last.self].table_size_ > prev[last.self].table_size_

\* C1: after any sequence of insert, operator[], erase and clear, find(k)
\* returns a record holding the reference value when k is in the reference
\* map and the end-sentinel otherwise, and size() is the number of keys of the
\* reference map.
C1_FindAgreesWithReference ==
  \A m \in {i \in MapIds : Constructed(i)} :
    /\ \A k \in Keys :
         LET it == find(hm[m], k)
         IN IF ref[m][k] = Absent
            THEN it = end(hm[m])
            ELSE /\ it # end(hm[m])
                 /\ \E n \in Nodes(hm[m]) :
                      n.addr = it /\ n.first = k /\ n.second = ref[m][k]
    /\ size(hm[m]) = Cardinality({k \in Keys : ref[m][k] # Absent})

\* An erase has removed a key while a key inserted with a non-default value
\* stays, after the table has grown to 8 chains.
C1_Witness ==
  /\ last.op = "erase"
  /\ Present(prev[1], last.key)
  /\ hm[1].table_size_ = 8
  /\ \E k \in Keys : ref[1][k] = 1

\* C2: insert((k, v2)) on a map that holds k with a value v1 # v2 leaves the
\* value at k, size() and the whole record sequence unchanged.
C2_InsertFirstWriteWins ==
  \A n \in Nodes(prev[last.self]) :
    (last.op = "insert" /\ n.first = last.key /\ n.second # last.val)
      => /\ n \in Nodes(hm[last.self])
         /\ size(hm[last.self]) = size(prev[last.self])
         /\ hm[last.self].element_list_ = prev[last.self].element_list_

\* An insert of a present key with another value, which doubled the table.
C2_Witness ==
  /\ last.op = "insert"
  /\ \E n \in Nodes(prev[1]) : n.first = last.key /\ n.second # last.val
  /\ Grew
  /\ Len(hm[1].element_list_) >= 2

\* C3: a handle (the address of a live node) denotes a node with the same key
\* after insert, operator[], find, at and erase of another key, growth
\* included; erase of the node's own key ends it.
C3_HandlesStable ==
  \A n \in Nodes(prev[last.self]) :
    /\ (\/ last.op \in {"insert", "operator[]", "find", "at"}
        \/ (last.op = "erase" /\ last.key # n.first))
         => \E n2 \in Nodes(hm[last.self]) :
              n2.addr = n.addr /\ n2.first = n.first
    /\ (last.op = "erase" /\ last.key = n.first)
         => \A n2 \in Nodes(hm[last.self]) : n2.addr # n.addr

\* An insert that added a record and doubled the table while two records
\* were live.
C3_Witness ==
  /\ last.op = "insert"
  /\ Grew
  /\ Len(prev[1].element_list_) >= 2
  /\ Len(hm[1].element_list_) > Len(prev[1].element_list_)

\* C4: an insert (or operator[]) that adds a record puts it at the front of
\* begin()..end(); the order of the other records is unchanged by insert, find,
\* at, erase of another key and growth.
C4_MostRecentFirst ==
  LET before == prev[last.self].element_list_
      after == hm[last.self].element_list_
  IN /\ (last.op \in {"insert", "operator[]"} /\ ~Present(prev[last.self], last.key))
          => /\ Len(after) = Len(before) + 1
             /\ after[1].addr = begin(hm[last.self])
             /\ after[1].first = last.key
             /\ Tail(after) = before
     /\ (last.op \in {"insert", "operator[]"} /\ Present(prev[last.self], last.key))
          => after = before
     /\ last.op \in {"find", "at"} => after = before
     /\ last.op = "erase"
          => after = SelectSeq(before, LAMBDA n : n.first # last.key)

\* The third record is added in front of two older ones by an insert that
\* doubles the table.
C4_Witness ==
  /\ last.op = "insert"
  /\ Grew
  /\ Len(prev[1].element_list_) = 2
  /\ Len(hm[1].element_list_) = 3
  /\ hm[1].element_list_[1].first = last.key

\* C8: operator[](k) on an absent key adds exactly the record (k, default),
\* increases size() by one and returns the default value; on a present key it
\* returns the stored value and changes nothing in the map.
C8_OperatorIndex ==
  last.op = "operator[]" =>
    LET before == prev[last.self]
        after == hm[last.self]
    IN IF Present(before, last.key)
       THEN /\ after = before
            /\ \E n \in Nodes(before) : n.first = last.key /\ n.second = last.ret
       ELSE /\ Len(after.element_list_) = Len(before.element_list_) + 1
            /\ Tail(after.element_list_) = before.element_list_
            /\ after.element_list_[1].first = last.key
            /\ after.element_list_[1].second = DefaultValue
            /\ size(after) = size(before) + 1
            /\ last.ret = DefaultValue

\* operator[] on a present key with a non-default value, in a state where the
\* growth check of insert would fire.
C8_Witness ==
  /\ last.op = "operator[]"
  /\ \E n \in Nodes(prev[1]) : n.first = last.key /\ n.second = 1
  /\ last.ret = 1
  /\ prev[1].size_ * kLoadFactor_ >= prev[1].table_size_

\* C9: at(k) throws out_of_range iff k is absent and returns the stored value
\* otherwise; the container is unchanged in both cases.
C9_AtThrowsIffAbsent ==
  last.op = "at" =>
    /\ (last.ret.threw = "out_of_range") <=> ~Present(prev[last.self], last.key)
    /\ Present(prev[last.self], last.key)
         => \E n \in Nodes(prev[last.self]) :
              n.first = last.key /\ n.second = last.ret.value
    /\ hm = prev

\* at throws on an absent key while other keys are stored.
C9_Witness ==
  /\ last.op = "at"
  /\ last.ret.threw = "out_of_range"
  /\ Len(hm[1].element_list_) >= 2
  /\ ~Present(hm[1], last.key)

\* The chain without the handles of the nodes that hold key.
ChainWithout(self, chain, key) ==
  SelectSeq(chain, LAMBDA a : \A n \in Nodes(self) : n.addr = a => n.first # key)

\* C10: erase(k) on a present key removes exactly that record and its bucket
\* handle, decreases size() by one and makes find(k) return the end-sentinel,
\* all other records, the chains' other handles and table_size unchanged;
\* erase(k) on an absent key changes nothing.
C10_EraseFrame ==
  last.op = "erase" =>
    LET before == prev[last.self]
        after == hm[last.self]
    IN IF Present(before, last.key)
       THEN /\ after.element_list_ =
                 SelectSeq(before.element_list_, LAMBDA n : n.first # last.key)
            /\ Len(after.element_list_) = Len(before.element_list_) - 1
            /\ size(after) = size(before) - 1
            /\ after.table_size_ = before.table_size_
            /\ DOMAIN after.hash_map_ = DOMAIN before.hash_map_
            /\ \A i \in DOMAIN before.hash_map_ :
                 after.hash_map_[i] = ChainWithout(before, before.hash_map_[i], last.key)
            /\ after.hasher_ = before.hasher_
            /\ find(after, last.key) = end(after)
       ELSE after = before

\* erase of a present key from a chain that holds another handle too.
C10_Witness ==
  /\ last.op = "erase"
  /\ Present(prev[1], last.key)
  /\ \E i \in DOMAIN prev[1].hash_map_ :
       /\ Len(prev[1].hash_map_[i]) >= 2
       /\ Len(hm[1].hash_map_[i]) = Len(prev[1].hash_map_[i]) - 1

\* ---- the constructors and assignment
Reverse(s) == [i \in 1..Len(s) |-> s[Len(s) + 1 - i]]

\* The pairs of a range whose key occurs at no earlier position, in the order
\* of the range.
FirstOccurrences(initial) ==
  LET keep == {i \in 1..Len(initial) :
                 \A j \in 1..(i - 1) : initial[j].first # initial[i].first}
      pos[n \in 0..Cardinality(keep)] ==
        IF n = 0 THEN 0
        ELSE CHOOSE i \in keep :
               /\ i > pos[n - 1]
               /\ \A j \in keep : j > pos[n - 1] => i <= j
  IN [n \in 1..Cardinality(keep) |->
        <<initial[pos[n]].first, initial[pos[n]].second>>]

\* C5: a map constructed from a range or a literal list of pairs iterates over
\* exactly one element per distinct key of the range, with the value of the
\* key's first occurrence, in reverse order of first occurrence.
C5_RangeCtorRoundTrip ==
  last.op \in {"HashMap(range)", "HashMap(list)"} =>
    Pairs(hm[last.self]) = Reverse(FirstOccurrences(last.range))

\* A range of three pairs whose second pair repeats the first key with
\* another value.
C5_Witness ==
  /\ last.op = "HashMap(range)"
  /\ Len(last.range) = 3
  /\ last.range[1].first = last.range[2].first
  /\ last.range[1].second # last.range[2].second
  /\ last.range[3].first # last.range[1].first
  /\ Len(hm[1].element_list_) = 2

\* C6: iterating a copy-constructed map yields the same sequence of pairs, in
\* the same order, as iterating its source.
C6_CopySameOrder ==
  last.op = "HashMap(other)" =>
    Pairs(hm[last.self]) = Pairs(hm[last.other])

\* The table size reached by n inserts of distinct keys into a table of
\* initialSize_ chains, by the growth rule alone.
TableAfter(n) ==
  LET t[i \in 0..n] ==
        IF i = 0 THEN initialSize_
        ELSE IF (i - 1) * kLoadFactor_ >= t[i - 1] THEN 2 * t[i - 1]
        ELSE t[i - 1]
  IN t[n]

\* C7: after copy construction from other, or a = other on distinct maps, the
\* target holds exactly other's pairs, other's size() and other's hash
\* function, its table_size is the one n inserts of distinct keys into a fresh
\* table reach, and other is unchanged.
C7_CopyAndAssignContents ==
  (last.op \in {"HashMap(other)", "operator="} /\ last.self # last.other) =>
    LET target == hm[last.self]
        other == prev[last.other]
    IN /\ Range(Pairs(target)) = Range(Pairs(other))
       /\ Len(target.element_list_) = Len(other.element_list_)
       /\ size(target) = size(other)
       /\ hash_function(target) = hash_function(other)
       /\ target.table_size_ = TableAfter(size(other))
       /\ hm[last.other] = other

\* An assignment over a target that held a key other lacks, had another hash
\* instance, and whose source has a larger table than the copy gets.
C7_Witness ==
  /\ last.op = "operator="
  /\ last.self # last.other
  /\ \E n \in Nodes(prev[last.self]) : ~Present(hm[last.other], n.first)
  /\ prev[last.self].hasher_ # hm[last.other].hasher_
  /\ hm[last.other].table_size_ > hm[last.self].table_size_
  /\ Len(hm[last.self].element_list_) >= 1

\* ---- clear, growth and the representation invariants
\* C11: clear() yields the state of a freshly constructed empty map with the
\* same hash function: size() 0, no records, table_size 2, two empty chains.
C11_ClearIsFresh ==
  last.op = "clear" =>
    /\ hm[last.self] = HashMapDefault(hash_function(prev[last.self]))
    /\ size(hm[last.self]) = 0
    /\ hm[last.self].element_list_ = <<>>
    /\ hm[last.self].table_size_ = 2
    /\ hm[last.self].hash_map_ = [i \in {0, 1} |-> <<>>]

\* clear of a map of three records in a table of 8 chains.
C11_Witness ==
  /\ last.op = "clear"
  /\ prev[1].table_size_ = 8
  /\ Len(prev[1].element_list_) = 3
  /\ hm[1].table_size_ = 2

\* C12 as stated: after any insert call, cardinality * 2 < table_size.
C12_StrictLoadFactorAfterInsert ==
  last.op = "insert" =>
    size(hm[last.self]) * 2 < hm[last.self].table_size_

\* C12: after any insert call, cardinality * 2 <= table_size; the strict
\* bound holds for the cardinality before the record is added.
C12_LoadFactorAfterInsert ==
  last.op = "insert" =>
    /\ size(hm[last.self]) * 2 <= hm[last.self].table_size_
    /\ ~Present(prev[last.self], last.key)
         => (size(hm[last.self]) - 1) * 2 < hm[last.self].table_size_

\* An insert that adds a record and ends with cardinality * 2 = table_size.
C12_Witness ==
  /\ last.op = "insert"
  /\ ~Present(prev[1], last.key)
  /\ size(hm[1]) * 2 = hm[1].table_size_
  /\ Grew

\* C13: insert, operator[], erase, find and at leave table_size unchanged or
\* double it once; clear sets it to 2; it gets smaller only by clear and by
\* assignment.
C13_TableSizeMonotone ==
  LET before == prev[last.self].table_size_
      after == hm[last.self].table_size_
  IN /\ last.op \in {"insert", "operator[]", "erase", "find", "at"}
          => after \in {before, 2 * before}
     /\ last.op \in {"erase", "find", "at"} => after = before
     /\ last.op = "clear" => after = 2
     /\ after < before => last.op \in {"clear", "operator="}
     /\ \A m \in MapIds \ {last.self} : hm[m].table_size_ = prev[m].table_size_

\* An assignment takes the target's table from 8 chains to 4.
C13_Witness ==
  /\ last.op = "operator="
  /\ prev[last.self].table_size_ = 8
  /\ hm[last.self].table_size_ = 4

DistinctKeys(initial) ==
  \A i \in 1..Len(initial) : \A j \in 1..Len(initial) :
    i # j => initial[i].first # initial[j].first

\* The smallest power of two >= 2 that is above cardinality * 2 for each
\* cardinality 0..n-1 the growth check of the n inserts sees.
SmallestTable(n) ==
  LET powers == {2^i : i \in 1..(n + 1)}
      fits(t) == \A c \in 0..(n - 1) : c * 2 < t
  IN CHOOSE t \in powers :
       fits(t) /\ \A u \in powers : u < t => ~fits(u)

\* C14: N inserts of distinct keys into a freshly constructed map end with
\* size() N and table_size the smallest power of two >= 2 with
\* cardinality * 2 < table_size for the cardinality each insert's growth check
\* saw.
C14_TableAfterDistinctInserts ==
  (last.op \in {"HashMap(range)", "HashMap(list)"} /\ DistinctKeys(last.range))
    => /\ size(hm[last.self]) = Len(last.range)
       /\ hm[last.self].table_size_ = SmallestTable(Len(last.range))

\* Three inserts of distinct keys end with size 3 and table_size 8.
C14_Witness ==
  /\ last.op = "HashMap(range)"
  /\ DistinctKeys(last.range)
  /\ Len(last.range) = 3
  /\ size(hm[1]) = 3
  /\ hm[1].table_size_ = 8

\* The maps that exist.
Live == {m \in MapIds : Constructed(m)}

\* How often a occurs in the chain.
Occurrences(chain, a) == Cardinality({i \in 1..Len(chain) : chain[i] = a})

\* C15: in every reachable state every live record has exactly one handle, in
\* the chain at index hash(key) mod table_size under the current hash
\* function and in no other chain, and every handle of every chain denotes a
\* live record.
C15_OneHandlePerRecord ==
  \A m \in Live :
    LET self == hm[m]
    IN /\ \A n \in Nodes(self) : \A i \in DOMAIN self.hash_map_ :
            Occurrences(self.hash_map_[i], n.addr) =
              IF i = Hasher(self.hasher_, n.first) % self.table_size_
              THEN 1 ELSE 0
       /\ \A i \in DOMAIN self.hash_map_ : \A a \in Range(self.hash_map_[i]) :
            \E n \in Nodes(self) : n.addr = a
       /\ \A i \in 1..Len(self.element_list_) :
            \A j \in 1..Len(self.element_list_) :
              i # j => self.element_list_[i].addr # self.element_list_[j].addr

\* An assignment has replaced the hash function of a map by one that puts the
\* records it receives into other chains than the source's.
C15_Witness ==
  /\ last.op = "operator="
  /\ last.self # last.other
  /\ prev[last.self].hasher_ # hm[last.self].hasher_
  /\ Len(hm[last.self].element_list_) >= 2
  /\ \E i \in DOMAIN hm[last.self].hash_map_ : Len(hm[last.self].hash_map_[i]) >= 2

\* C16: in every reachable state table_size is a power of two, at least 2,
\* and the bucket index has table_size chains.
C16_TableSizePowerOfTwo ==
  \A m \in Live :
    /\ hm[m].table_size_ >= 2
    /\ \E i \in 1..(MaxKey + 2) : hm[m].table_size_ = 2^i
    /\ DOMAIN hm[m].hash_map_ = 0..(hm[m].table_size_ - 1)

\* A clear has taken a table of 8 chains back to 2.
C16_Witness ==
  /\ last.op = "clear"
  /\ prev[1].table_size_ = 8
  /\ DOMAIN hm[1].hash_map_ = {0, 1}
  /\ DOMAIN prev[1].hash_map_ = 0..7

\* C17: in every reachable state size_ is the number of records in the record
\* list, also right after a growth step.
C17_SizeIsRecordCount ==
  \A m \in Live : hm[m].size_ = Len(hm[m].element_list_)

\* An insert of a present key has doubled the table of a map with two
\* records: the growth step recounted them and nothing was added.
C17_Witness ==
  /\ last.op = "insert"
  /\ Grew
  /\ Present(prev[1], last.key)
  /\ Len(prev[1].element_list_) = 2
  /\ hm[1].size_ = 2

\* C18: in every reachable state no two live records have equal keys.
C18_NoDuplicateKeys ==
  \A m \in Live :
    \A i \in 1..Len(hm[m].element_list_) :
      \A j \in 1..Len(hm[m].element_list_) :
        i # j => hm[m].element_list_[i].first # hm[m].element_list_[j].first

\* An insert of a present key whose chain moved with the growth step the
\* insert itself ran: key 3 under the identity hash goes from chain 1 of 2 to
\* chain 3 of 4.
C18_Witness ==
  /\ last.op = "insert"
  /\ Present(prev[1], last.key)
  /\ Grew
  /\ IdxFromKey(prev[1], last.key) # IdxFromKey(hm[1], last.key)
  /\ Len(hm[1].element_list_) = Len(prev[1].element_list_)

\* The chains a rebuild of the bucket index from the record list gives: chain
\* i holds the addresses of the records whose key has index i, in list order.
RebuiltChains(self) ==
  [i \in 0..(self.table_size_ - 1) |->
     LET mine == SelectSeq(self.element_list_,
                           LAMBDA n : IdxFromKey(self, n.first) = i)
     IN [j \in 1..Len(mine) |-> mine[j].addr]]

\* C19: insert of a present key in a state with cardinality * 2 >= table_size
\* doubles table_size and rebuilds the chains, size() and the record sequence
\* unchanged; with cardinality * 2 < table_size it changes nothing.
C19_GrowthBeforeDuplicateCheck ==
  (last.op = "insert" /\ Present(prev[last.self], last.key)) =>
    LET before == prev[last.self]
        after == hm[last.self]
    IN IF size(before) * 2 >= before.table_size_
       THEN /\ after.table_size_ = 2 * before.table_size_
            /\ size(after) = size(before)
            /\ after.element_list_ = before.element_list_
            /\ after.hasher_ = before.hasher_
            /\ after.hash_map_ = RebuiltChains(after)
       ELSE after = before

\* An insert of a present key has doubled the table and moved a handle to
\* another chain.
C19_Witness ==
  /\ last.op = "insert"
  /\ Present(prev[1], last.key)
  /\ hm[1].table_size_ = 2 * prev[1].table_size_
  /\ Len(hm[1].element_list_) = 2
  /\ \E n \in Nodes(hm[1]) : IdxFromKey(prev[1], n.first) # IdxFromKey(hm[1], n.first)

\* C20: in every reachable state cardinality * 2 <= table_size, so that one
\* doubling gives cardinality * 2 < table_size.
C20_LoadFactorNonStrict ==
  \A m \in Live :
    /\ size(hm[m]) * kLoadFactor_ <= hm[m].table_size_
    /\ size(hm[m]) * kLoadFactor_ < 2 * hm[m].table_size_

\* A copy of two records sits in a table of 4 chains: the bound is met with
\* equality.
C20_Witness ==
  /\ last.op = "HashMap(other)"
  /\ size(hm[2]) = 2
  /\ hm[2].table_size_ = 4
  /\ hm[1].table_size_ = 8

====
